---- MODULE Spec2Model ----
(***************************************************************************)
(* A model of pytest-smartcollect (src/pytest_smartcollect/helpers.py):    *)
(* the dependency walk SmartCollector.dependencies_changed, the member     *)
(* locator SmartCollector.find_changed_members and the per-item decision   *)
(* loop of SmartCollector.run.                                             *)
(*                                                                         *)
(* A project is a finite set of top-level symbols, one per name: symbol s  *)
(* lives in the file fileOf[s], its body uses the names n with <<s, n>> in *)
(* uses, and it is a class with the base n when <<s, n>> is in bases.  A   *)
(* name a file uses and another project file defines is imported from that *)
(* file; a name defined outside the project is never recorded as an import.*)
(* "%s::%s" chain entries are kept as pairs <<path, name>>.                *)
(***************************************************************************)
EXTENDS Integers, Sequences, FiniteSets, TLC

\* ---------------------------------------------------------------- bounds
MaxEdges == 2         \* declared uses plus base classes of a project
MaxBases == 1         \* base-class edges among them
MaxChanged == 1       \* symbols seeded as locally changed
MaxQueries == 2       \* top-level dependencies_changed calls of one run
MaxLines == 3         \* lines of a module given to find_changed_members
MaxRanges == 2        \* ranges of one ChangedFile
MaxRunEdges == 2      \* declared uses of a project given to run()
MaxOptions == 1       \* run() inputs that differ from the plain setup
MaxPackages == 2      \* packages find_packages discovers
MaxDiffs == 1         \* files the diff touches
MaxItems == 1         \* test items of one run
MaxStart == 3         \* first line of a side of a hunk header
MaxCount == 4         \* line count of a side of a hunk header
MaxNesting == 3       \* package directories above an importing file
MaxLevel == 3         \* level of a relative import
MaxEntries == 2       \* diffs given to find_changed_files

\* ------------------------------------------------------------- universe
NameOrder == <<"f", "g", "h">>
Names == {NameOrder[i] : i \in DOMAIN NameOrder}   \* one symbol per name
ProjectFiles == {"a.py", "b.py"}                   \* under the git root
OutsideFiles == {"x.py"}                           \* site-packages
AllFiles == ProjectFiles \cup OutsideFiles

Range(s) == {s[i] : i \in DOMAIN s}
Count(s, x) == Cardinality({i \in DOMAIN s : s[i] = x})
EmptyMap == [p \in {} |-> <<>>]

\* all orders in which a Python set of names can be iterated
Perms == {p \in [DOMAIN NameOrder -> Names] : Range(p) = Names}
InOrder(ord, S) == SelectSeq(ord, LAMBDA n : n \in S)

\* the walk cannot nest deeper than the number of distinct chain entries:
\* every call is on a pair <<fileOf[n], n>>
MaxDepth == Cardinality(Names) + 2

VARIABLES
    fileOf,        \* symbol name -> file that defines it
    uses,          \* set of <<s, n>>: the body of symbol s uses the name n
    bases,         \* set of <<s, n>>: class s has the base-class name n
    faulty,        \* file -> "ok", "read" (read_file raises), "import"
    seed,          \* changed_members_and_modules as run() built it
    change_map,    \* path -> list of names known changed
    unchanged_map, \* path -> list of names known unchanged
    query,         \* <<path, name>> of the last top-level call, or <<>>
    ret,           \* its outcome: "true", "false", "cycle", "error", "depth"
    chain,         \* the chain list the call was given, after the call
    parsed,        \* pairs dependencies_changed has read and parsed, in order
    queries,       \* number of top-level calls made
    balanced,      \* whether every call of the last walk that returned False
                   \* left the chain as it was given it
    pre,           \* the memos and the parse log just before the last call
    module_info,   \* a parsed module: its classes, functions, assignments
    total_lines,   \* its line count as read_file returns it
    changed_lines, \* ChangedFile.changed_lines: a list of ranges <<start, stop>>
    changed_members, \* what find_changed_members returned for them
    located,       \* whether find_changed_members has been applied
    pc,            \* where run() is: "idle", "items", "returned", "raised"
    sys_path,      \* sys.path
    sys_path0,     \* sys.path when run() was called
    packages,      \* self.packages
    ignore_source, \* self.ignore_source
    fixtures,      \* the symbols that are pytest fixtures
    changed_files, \* path -> [change_type, changed_lines], as run() merges it
    item,          \* the record of the last test item run() processed
    n_items,       \* test items processed
    first_commit,  \* whether run() found fewer than two commits on the head (line 581)
    diffs,         \* the entries of the diff given to find_changed_files
    found,         \* what find_changed_files made of them
    importing,     \* an entry of module_info["imports"]: the importing file,
                   \* the module named and the level of the import
    module_name    \* the module name lines 484-504 make of it, as the list
                   \* of its dotted parts; <<>> before

projVars == <<fileOf, uses, bases, faulty, seed>>
walkVars == <<change_map, unchanged_map, query, ret, chain, parsed, queries,
              balanced, pre>>
memberVars == <<module_info, total_lines, changed_lines, changed_members, located>>
runVars == <<pc, sys_path, sys_path0, packages, ignore_source, fixtures,
             changed_files, item, n_items, first_commit>>
diffVars == <<diffs, found>>
importVars == <<importing, module_name>>
vars == <<projVars, walkVars, memberVars, runVars, diffVars, importVars>>

\* -------------------------------------------------- the symbol table
\* ModuleInfoExtractor: the members of the file at path
IsDefined(path, name) == name \in DOMAIN fileOf /\ fileOf[name] = path

\* ObjectNameExtractor.extract(obj): the names the body of obj uses
UsedNames(path, name) ==
    IF IsDefined(path, name) THEN {e[2] : e \in {u \in uses : u[1] = name}}
    ELSE {}

\* BaseClassNameExtractor.extract(obj), for obj a ClassDef
BaseNames(path, name) ==
    IF IsDefined(path, name)
    THEN InOrder(NameOrder, {e[2] : e \in {b \in bases : b[1] = name}})
    ELSE <<>>

\* a variant that takes every file for a file of the project
file_in_project_any(f) == f \in AllFiles

\* lines 397-402, for dir the root of the repository
file_in_project(f) == f \in ProjectFiles

\* imported_names_and_modules[name] as lines 483-521 build it for the file
\* at path: the project files the imported name comes from
ImportedPaths(path, name) ==
    IF name \in DOMAIN fileOf /\ fileOf[name] # path /\ file_in_project(fileOf[name])
    THEN <<fileOf[name]>>
    ELSE <<>>

\* --------------------------------------------------------- the memos
InMap(path, name, m) == path \in DOMAIN m /\ name \in Range(m[path])

\* a variant that replaces the list of the key instead of appending to it
add_key_and_value_overwriting(module_path, member, m) ==
    IF module_path \notin DOMAIN m
    THEN (module_path :> <<member>>) @@ m
    ELSE [m EXCEPT ![module_path] = <<member>>]

add_key_and_value_to_linked_list(module_path, member, m) ==
    IF module_path \notin DOMAIN m
    THEN (module_path :> <<member>>) @@ m
    ELSE IF member \notin Range(m[module_path])
         THEN [m EXCEPT ![module_path] = Append(@, member)]
         ELSE m

Pop(s) == SubSeq(s, 1, Len(s) - 1)

\* ------------------------------------------------ find_changed_members
MemberNames == {"f", "g", "util"}
Kinds == {"classes", "functions", "assignments"}

\* iterating a Python str yields its characters
StrChars(str) ==
    CASE str = "f" -> <<"f">>
      [] str = "g" -> <<"g">>
      [] str = "h" -> <<"h">>
      [] str = "util" -> <<"u", "t", "i", "l">>

\* sorted(direct_children, key=lambda x: x[1]): stable, by line
RECURSIVE InsertByLine(_, _)
InsertByLine(sorted, c) ==
    IF sorted = <<>> THEN <<c>>
    ELSE IF sorted[Len(sorted)][2] <= c[2] THEN Append(sorted, c)
    ELSE Append(InsertByLine(Pop(sorted), c), sorted[Len(sorted)])

RECURSIVE SortedByLine(_)
SortedByLine(cs) ==
    IF cs = <<>> THEN <<>>
    ELSE InsertByLine(SortedByLine(Pop(cs)), cs[Len(cs)])

\* lines 357-365: classes, then functions, then assignments, as <<name, lineno>>
DirectChildren(mi) == mi.classes \o mi.functions \o mi.assignments

\* set(range(start, stop))
RangeSet(start, stop) == {i \in start..(stop - 1) : TRUE}

\* lines 370-372
ChangedLineSet(ranges) ==
    UNION {RangeSet(ranges[i][1], ranges[i][2]) : i \in DOMAIN ranges}

\* list.extend(node_name) with node_name a str
ExtendWith(list, node_name) == list \o StrChars(node_name)

\* lines 375-383
RECURSIVE MembersLoop(_, _, _, _, _)
MembersLoop(dc, idx, lines, total, acc) ==
    IF idx > Len(dc) THEN acc
    ELSE LET lineno == dc[idx][2]
             r == IF idx + 1 <= Len(dc)
                  THEN RangeSet(lineno, dc[idx + 1][2])
                  ELSE RangeSet(lineno, total)
         IN  MembersLoop(dc, idx + 1, lines, total,
                         IF lines \cap r # {} THEN ExtendWith(acc, dc[idx][1]) ELSE acc)

find_changed_members(ranges, mi, total) ==
    MembersLoop(SortedByLine(DirectChildren(mi)), 1, ChangedLineSet(ranges), total, <<>>)

\* ------------------------------------------------- dependencies_changed
\* A walk state is [cm, um, vm, chain, parsed, ret, balanced]: the three
\* maps and the chain list the call shares with its caller, the parse log,
\* how the call ended ("none" while it runs; "cycle" and "error" are
\* exceptions), and whether every call that has returned False so far left
\* the chain as it was given it.
RECURSIVE dependencies_changed(_, _, _, _, _)
RECURSIVE PathLoop(_, _, _, _, _, _, _)
RECURSIVE BaseLoop(_, _, _, _, _, _)
RECURSIVE UseLoop(_, _, _, _, _, _, _)

\* a variant that looks the pair up in the unchanged memo, not the visited map
CycleDetected_WrongMap(path, object_name, st) ==
    /\ InMap(path, object_name, st.um)
    /\ Count(st.chain, <<path, object_name>>) > 1

\* a variant that takes every second visit of a pair for a cycle
CycleDetected_AnyRevisit(path, object_name, st) ==
    InMap(path, object_name, st.vm)

\* line 418: the pair was visited before and is on the chain a second time
CycleDetected(path, object_name, st) ==
    /\ InMap(path, object_name, st.vm)
    /\ Count(st.chain, <<path, object_name>>) > 1

\* a variant that memoizes the verdict in the change memo
ReturnUnchanged_MemoAsChanged(path, object_name, st) ==
    [st EXCEPT !.cm = add_key_and_value_to_linked_list(path, object_name, @),
               !.chain = Pop(@), !.ret = "false"]

\* a variant that leaves the entry of the call on the chain
ReturnUnchanged_NoPop(path, object_name, st) ==
    [st EXCEPT !.um = add_key_and_value_to_linked_list(path, object_name, @),
               !.ret = "false"]

\* a variant that forgets to memoize the verdict
ReturnUnchanged_NoMemo(path, object_name, st) ==
    [st EXCEPT !.chain = Pop(@), !.ret = "false"]

\* lines 565-567: no use propagated a change
ReturnUnchanged(path, object_name, st) ==
    [st EXCEPT !.um = add_key_and_value_to_linked_list(path, object_name, @),
               !.chain = Pop(@), !.ret = "false"]

\* lines 532-535 and 560-563: r is the answer for name in Head(paths)
PathStep(path, object_name, name, paths, r, ord, d) ==
    IF r.ret = "true"
    THEN [r EXCEPT !.cm = add_key_and_value_to_linked_list(path, object_name,
                          add_key_and_value_to_linked_list(Head(paths), name, @))]
    ELSE IF r.ret = "false"
    THEN PathLoop(path, object_name, name, Tail(paths), [r EXCEPT !.ret = "none"], ord, d)
    ELSE r

\* for module_path in imported_names_and_modules[name] (lines 531-535, 559-563)
PathLoop(path, object_name, name, paths, st, ord, d) ==
    IF paths = <<>> THEN st
    ELSE PathStep(path, object_name, name, paths,
                  dependencies_changed(Head(paths), name, st, ord, d - 1), ord, d)

\* lines 530-535: r is the answer of the loop over the modules of a base
BaseImported(path, object_name, bs, r, ord, d) ==
    IF r.ret # "none" THEN r
    ELSE BaseLoop(path, object_name, Tail(bs), r, ord, d)

\* lines 537-541: r is the answer for a base class of the same file
BaseLocal(path, object_name, bs, r, ord, d) ==
    IF r.ret = "true"
    THEN [r EXCEPT !.cm = add_key_and_value_to_linked_list(path, object_name,
                          add_key_and_value_to_linked_list(path, Head(bs), @))]
    ELSE IF r.ret = "false"
    THEN BaseLoop(path, object_name, Tail(bs), [r EXCEPT !.ret = "none"], ord, d)
    ELSE r

\* check base classes recursively (lines 523-541)
BaseLoop(path, object_name, bs, st, ord, d) ==
    IF bs = <<>> THEN st
    ELSE IF ImportedPaths(path, Head(bs)) # <<>>
    THEN BaseImported(path, object_name, bs,
                      PathLoop(path, object_name, Head(bs),
                               ImportedPaths(path, Head(bs)), st, ord, d), ord, d)
    ELSE IF IsDefined(path, Head(bs))
    THEN BaseLocal(path, object_name, bs,
                   dependencies_changed(path, Head(bs), st, ord, d - 1), ord, d)
    ELSE BaseLoop(path, object_name, Tail(bs), st, ord, d)

\* lines 558-563: r is the answer of the loop over the modules of a name
UseImported(path, object_name, names, aliased, r, ord, d) ==
    IF r.ret # "none" THEN r
    ELSE UseLoop(path, object_name, Tail(names), aliased, r, ord, d)

\* a variant without the test of line 550: the own name is resolved like
\* any other name of the file
UseLoop_SelfResolved(path, object_name, names, aliased, st, ord, d) ==
    IF names = <<>> THEN st
    ELSE IF Head(names) = object_name
    THEN dependencies_changed(path, Head(names), st, ord, d - 1)
    ELSE IF /\ aliased /\ Head(names) \in Range(st.cm[path])
            /\ InMap(path, Head(names), st.cm)
    THEN [st EXCEPT !.cm = add_key_and_value_to_linked_list(path, object_name, @),
                    !.ret = "true"]
    ELSE IF ImportedPaths(path, Head(names)) # <<>>
    THEN UseImported(path, object_name, names, aliased,
                     PathLoop(path, object_name, Head(names),
                              ImportedPaths(path, Head(names)), st, ord, d), ord, d)
    ELSE UseLoop(path, object_name, Tail(names), aliased, st, ord, d)

\* a variant that leaves the loop at the first name that is not its own and
\* is not found changed
UseLoop_EarlyExit(path, object_name, names, aliased, st, ord, d) ==
    IF names = <<>> THEN st
    ELSE IF Head(names) = object_name
    THEN UseLoop(path, object_name, Tail(names), aliased, st, ord, d)
    ELSE IF /\ aliased /\ Head(names) \in Range(st.cm[path])
            /\ InMap(path, Head(names), st.cm)
    THEN [st EXCEPT !.cm = add_key_and_value_to_linked_list(path, object_name, @),
                    !.ret = "true"]
    ELSE IF ImportedPaths(path, Head(names)) # <<>>
    THEN PathLoop(path, object_name, Head(names),
                  ImportedPaths(path, Head(names)), st, ord, d)
    ELSE st

\* for name in used_names (lines 548-563); aliased: locally_changed is the
\* list change_map[path] itself, else a list that stays empty
UseLoop(path, object_name, names, aliased, st, ord, d) ==
    IF names = <<>> THEN st
    ELSE IF Head(names) = object_name
    THEN UseLoop(path, object_name, Tail(names), aliased, st, ord, d)
    ELSE IF /\ aliased /\ Head(names) \in Range(st.cm[path])
            /\ InMap(path, Head(names), st.cm)
    THEN [st EXCEPT !.cm = add_key_and_value_to_linked_list(path, object_name, @),
                    !.ret = "true"]
    ELSE IF ImportedPaths(path, Head(names)) # <<>>
    THEN UseImported(path, object_name, names, aliased,
                     PathLoop(path, object_name, Head(names),
                              ImportedPaths(path, Head(names)), st, ord, d), ord, d)
    ELSE UseLoop(path, object_name, Tail(names), aliased, st, ord, d)

\* lines 565-567 after the loop over the used names has answered s5
AfterUses(path, object_name, s5) ==
    IF s5.ret # "none" THEN s5 ELSE ReturnUnchanged(path, object_name, s5)

\* lines 543-563 after the loop over the base classes has answered s4
AfterBases(path, object_name, aliased, s4, ord, d) ==
    IF s4.ret # "none" THEN s4
    ELSE AfterUses(path, object_name,
                   UseLoop(path, object_name,
                           InOrder(ord, UsedNames(path, object_name)), aliased, s4, ord, d))

\* lines 444-541: s3 is the state once the file is read; locally_changed
\* is change_map[path] if path is a key of change_map (lines 444-447);
\* resolving the imports of the file may raise (lines 483-521)
FileRead(path, object_name, s3, ord, d) ==
    IF faulty[path] = "import"
    THEN [s3 EXCEPT !.ret = "error"]
    ELSE AfterBases(path, object_name, path \in DOMAIN s3.cm,
                    BaseLoop(path, object_name, BaseNames(path, object_name), s3, ord, d),
                    ord, d)

\* lines 424-441: s2 is the state once the pair is in the visited map
Visited(path, object_name, s2, ord, d) ==
    IF InMap(path, object_name, s2.cm)
    THEN [s2 EXCEPT !.ret = "true"]
    ELSE IF InMap(path, object_name, s2.um)
    THEN [s2 EXCEPT !.chain = Pop(@), !.ret = "false"]
    ELSE IF ~file_in_project(path)
    THEN [s2 EXCEPT !.um = add_key_and_value_to_linked_list(path, object_name, @),
                    !.vm = add_key_and_value_to_linked_list(path, object_name, @),
                    !.chain = Pop(@), !.ret = "false"]
    ELSE IF faulty[path] = "read"
    THEN [s2 EXCEPT !.ret = "error"]
    ELSE FileRead(path, object_name,
                  [s2 EXCEPT !.parsed = Append(@, <<path, object_name>>)], ord, d)

\* lines 418-422: s1 is the state once the pair is on the chain
Entered(path, object_name, s1, ord, d) ==
    IF CycleDetected(path, object_name, s1)
    THEN [s1 EXCEPT !.ret = "cycle"]
    ELSE Visited(path, object_name,
                 [s1 EXCEPT !.vm = add_key_and_value_to_linked_list(path, object_name, @)],
                 ord, d)

\* the call given the state st has ended in r: note a return of False
\* (lines 427, 433, 567) that leaves the chain other than it was given
Returned(st, r) ==
    IF r.ret = "false" /\ r.chain # st.chain
    THEN [r EXCEPT !.balanced = FALSE]
    ELSE r

\* d bounds the depth of the recursion; the answer "depth" never occurs
dependencies_changed(path, object_name, st, ord, d) ==
    IF d = 0 THEN [st EXCEPT !.ret = "depth"]
    ELSE Returned(st,
                  Entered(path, object_name,
                          [st EXCEPT !.chain = Append(@, <<path, object_name>>),
                                     !.ret = "none"],
                          ord, d))

\* ------------------------------------------------ the walk, query by query
\* run() calls dependencies_changed once per fixture argument and once per
\* test symbol (lines 685 and 703), each time with the two memos of the run,
\* a fresh visited map and a fresh chain.
Exceptions == {"cycle", "error", "depth"}

WalkState(cm, um, log) ==
    [cm |-> cm, um |-> um, vm |-> EmptyMap, chain |-> <<>>, parsed |-> log,
     ret |-> "none", balanced |-> TRUE]

\* the orders in which the sets of used names may be iterated: one will
\* do when no symbol uses two names
Orders ==
    IF \A s \in Names : Cardinality({e \in uses : e[1] = s}) <= 1
    THEN {NameOrder} ELSE Perms

TopLevel(path, name, cm, um, log, ord) ==
    dependencies_changed(path, name, WalkState(cm, um, log), ord, MaxDepth)

InProject(S) == {n \in S : file_in_project(fileOf[n])}

\* changed_members_and_modules: one key per changed file, the changed
\* members of the file in declaration order
SeedOf(keys, changed) ==
    [p \in keys |-> InOrder(NameOrder, {n \in changed : fileOf[n] = p})]

Edges == Names \X Names

\* Where the symbols live, up to renaming symbols and project files: at
\* most one symbol is third-party code.
Placements ==
    {pl \in [Names -> AllFiles] :
        /\ pl[NameOrder[1]] = "a.py"
        /\ \A i \in DOMAIN NameOrder : i < Len(NameOrder) => file_in_project(pl[NameOrder[i]])}

InitGraph(maxEdges, maxBases) ==
    /\ fileOf \in Placements
    /\ bases \in {B \in SUBSET Edges : Cardinality(B) <= maxBases}
    /\ uses \in {U \in SUBSET Edges : Cardinality(U) + Cardinality(bases) <= maxEdges}
    /\ \A e \in uses \cup bases : file_in_project(fileOf[e[1]])

InitProject ==
    /\ InitGraph(MaxEdges, MaxBases)
    /\ \E changed \in {C \in SUBSET InProject(Names) : Cardinality(C) <= MaxChanged} :
       \E keys \in SUBSET ProjectFiles :
          /\ {fileOf[n] : n \in changed} \subseteq keys
          /\ seed = SeedOf(keys, changed)

NoModule ==
    /\ module_info = [classes |-> <<>>, functions |-> <<>>, assignments |-> <<>>]
    /\ total_lines = 0
    /\ changed_lines = <<>>
    /\ changed_members = <<>>
    /\ located = FALSE

NoImportFrom == [path |-> <<>>, module |-> "", level |-> 0]

NoImport ==
    /\ importing = NoImportFrom
    /\ module_name = <<>>

NoItem == [name |-> "none"]
PlainPath == <<"/usr/lib/python3", "site-packages">>

NoFound == [A |-> EmptyMap, M |-> EmptyMap, D |-> EmptyMap, R |-> EmptyMap,
            T |-> EmptyMap, ret |-> "none"]

NoRun ==
    /\ first_commit = FALSE
    /\ diffs = <<>>
    /\ found = NoFound
    /\ pc = "idle"
    /\ sys_path = PlainPath
    /\ sys_path0 = PlainPath
    /\ packages = <<>>
    /\ ignore_source = {}
    /\ fixtures = {}
    /\ changed_files = EmptyMap
    /\ item = NoItem
    /\ n_items = 0

Init ==
    /\ InitProject
    /\ faulty = [p \in AllFiles |-> "ok"]
    /\ change_map = seed
    /\ unchanged_map = EmptyMap
    /\ query = <<>>
    /\ ret = "none"
    /\ chain = <<>>
    /\ parsed = <<>>
    /\ queries = 0
    /\ balanced = TRUE
    /\ pre = [cm |-> seed, um |-> EmptyMap, parsed |-> <<>>]
    /\ NoModule
    /\ NoRun
    /\ NoImport

Query(name) ==
    /\ queries < MaxQueries
    /\ ret \notin Exceptions
    /\ \E ord \in Orders :
         LET r == TopLevel(fileOf[name], name, change_map, unchanged_map, parsed, ord)
         IN  /\ change_map' = r.cm
             /\ unchanged_map' = r.um
             /\ ret' = r.ret
             /\ chain' = r.chain
             /\ parsed' = r.parsed
             /\ balanced' = r.balanced
    /\ query' = <<fileOf[name], name>>
    /\ queries' = queries + 1
    /\ pre' = [cm |-> change_map, um |-> unchanged_map, parsed |-> parsed]
    /\ UNCHANGED <<projVars, memberVars, runVars, diffVars, importVars>>

Next == \E name \in Names : Query(name)

Spec == Init /\ [][Next]_vars

\* ------------------------------------------------------------------ run()
\* The files of the project as run() reads them: the symbols of a file are
\* declared in NameOrder, two lines each.
SymbolsOf(path) == InOrder(NameOrder, {n \in Names : fileOf[n] = path})
LineCount(path) == 2 * Len(SymbolsOf(path))
IsClass(n) == \E b \in bases : b[1] = n

DeclLines(path, S) ==
    [i \in 1..Len(InOrder(SymbolsOf(path), S)) |->
        LET n == InOrder(SymbolsOf(path), S)[i]
            k == CHOOSE j \in DOMAIN SymbolsOf(path) : SymbolsOf(path)[j] = n
        IN  <<n, 2 * k - 1>>]

\* ModuleInfoExtractor.extract on the contents of the file
FileModule(path) ==
    [classes |-> DeclLines(path, {n \in Names : IsClass(n)}),
     functions |-> DeclLines(path, {n \in Names : ~IsClass(n)}),
     assignments |-> <<>>]

\* dict.update
Update(d, e) == e @@ d

\* ----------------------------------------------------- find_changed_files
\* A text is the sequence of its characters.
DigitChars == <<"0", "1", "2", "3", "4", "5", "6", "7", "8", "9">>

\* str(n), for n a natural number
RECURSIVE Digits(_)
Digits(n) ==
    IF n < 10 THEN <<DigitChars[n + 1]>>
    ELSE Digits(n \div 10) \o <<DigitChars[(n % 10) + 1]>>

IsDigit(c) == \E i \in DOMAIN DigitChars : DigitChars[i] = c
DigitValue(c) == (CHOOSE i \in DOMAIN DigitChars : DigitChars[i] = c) - 1

\* int(x): -1 stands for the ValueError of a text that is no number
RECURSIVE IntOf(_, _)
IntOf(x, acc) ==
    IF x = <<>> THEN acc
    ELSE IF ~IsDigit(Head(x)) THEN -1
    ELSE IntOf(Tail(x), 10 * acc + DigitValue(Head(x)))
ParseInt(x) == IF x = <<>> THEN -1 ELSE IntOf(x, 0)

StartsWith(x, sep) == Len(x) >= Len(sep) /\ SubSeq(x, 1, Len(sep)) = sep

\* x.split(sep)
RECURSIVE SplitFrom(_, _, _)
SplitFrom(x, sep, cur) ==
    IF x = <<>> THEN <<cur>>
    ELSE IF StartsWith(x, sep)
    THEN <<cur>> \o SplitFrom(SubSeq(x, Len(sep) + 1, Len(x)), sep, <<>>)
    ELSE SplitFrom(Tail(x), sep, Append(cur, Head(x)))
Split(x, sep) == SplitFrom(x, sep, <<>>)

\* x.strip()
RECURSIVE LStrip(_)
LStrip(x) == IF x # <<>> /\ Head(x) = " " THEN LStrip(Tail(x)) ELSE x
RECURSIVE RStrip(_)
RStrip(x) == IF x # <<>> /\ x[Len(x)] = " " THEN RStrip(Pop(x)) ELSE x
Strip(x) == RStrip(LStrip(x))

\* x.replace(c, '')
Remove(x, c) == SelectSeq(x, LAMBDA y : y # c)

\* The hunk header git writes for the sides old and new, each <<start>>
\* or <<start, count>>; new is <<>> in a header with one side only.
Side(x) == IF Len(x) = 2 THEN Digits(x[1]) \o <<",">> \o Digits(x[2]) ELSE Digits(x[1])
HunkHeader(old, new) ==
    <<"@", "@", " ", "-">> \o Side(old)
        \o (IF new = <<>> THEN <<>> ELSE <<" ", "+">> \o Side(new))
        \o <<" ", "@", "@">>
PatchOf(header) == header \o <<"\n", "+", "x">>

PlainHeader == HunkHeader(<<1, 2>>, <<1, 2>>)

\* a diff d: its change type ("X": a type git does not have), its path,
\* its patch text and, for reference, the sides its hunk header was
\* written from
ChangeTypes == {"A", "M", "D", "R", "T", "X"}
Diff(change_type, path, text, hunk) ==
    [change_type |-> change_type, path |-> path, text |-> text, hunk |-> hunk]

BinaryMark == "Binary files"
BinaryPatch == <<BinaryMark, " ", "d", "i", "f", "f", "e", "r">>
EmptyPatch == <<>>
HeaderlessPatch == <<"+", "x", "\n", "-", "y">>
GarbledPatch == PatchOf(<<"@", "@", " ", "-", "x", " ", "+", "y", " ", "@", "@">>)

\* re.match('^Binary files.*', diff_text)
IsBinary(text) == text # <<>> /\ Head(text) = BinaryMark

\* os.path.splitext(filepath)[-1] == '.py'
IsPy(path) == path \in AllFiles

\* an exception, as a value of the type of the result it replaces
Raised == <<"error">>
Skipped == [change_type |-> "skip"]
Failed == [change_type |-> "error"]

\* a variant that takes the count for the end of the range
SideRange_CountAsEnd(side) ==
    LET nums == [i \in DOMAIN Split(side, <<",">>) |-> ParseInt(Split(side, <<",">>)[i])]
    IN  IF \E i \in DOMAIN nums : nums[i] = -1 THEN Raised
        ELSE <<nums[1], IF Len(nums) > 1 THEN nums[2] ELSE 0>>

\* lines 278-283 and 285-291: the start and the count of one side
SideRange(side) ==
    LET nums == [i \in DOMAIN Split(side, <<",">>) |-> ParseInt(Split(side, <<",">>)[i])]
    IN  IF \E i \in DOMAIN nums : nums[i] = -1 THEN Raised
        ELSE <<nums[1], nums[1] + (IF Len(nums) > 1 THEN nums[2] ELSE 0)>>

\* lines 272-296: the ranges of a modified file; with fewer than two
\* sides, line 274 or line 275 always raises
ModifiedRanges(diff_lines_spec) ==
    LET ranges == Split(diff_lines_spec, <<" ">>)
    IN  IF Len(ranges) < 2 THEN Raised
        ELSE IF SideRange(ranges[1]) = Raised \/ SideRange(ranges[2]) = Raised
        THEN Raised
        ELSE <<SideRange(ranges[1]), SideRange(ranges[2])>>

\* line 256; a first line without '@@' raises an IndexError
DiffLinesSpec(diff_text) ==
    LET parts == Split(Split(diff_text, <<"\n">>)[1], <<"@", "@">>)
    IN  IF Len(parts) < 2 THEN Raised
        ELSE Remove(Remove(Strip(parts[2]), "+"), "-")

ChangedFile(change_type, lines) ==
    [change_type |-> change_type, changed_lines |-> lines]

\* lines 260-320 for one diff: Skipped for a file that is no python file,
\* Failed for an exception, else the ChangedFile.  os.path.join of the
\* repository path, a str, and d.b_rawpath, a bytes, raises (line 312).
RecordOf(d, diff_lines_spec) ==
    IF d.change_type \in {"A", "R"}
    THEN IF ~IsPy(d.path) THEN Skipped
         ELSE IF faulty[d.path] = "read" THEN Failed
         ELSE ChangedFile(d.change_type, <<<<1, LineCount(d.path)>>>>)
    ELSE IF d.change_type = "M"
    THEN IF ~IsPy(d.path) THEN Skipped
         ELSE IF ModifiedRanges(diff_lines_spec) = Raised THEN Failed
         ELSE ChangedFile("M", ModifiedRanges(diff_lines_spec))
    ELSE IF d.change_type = "D"
    THEN IF ~IsPy(d.path) THEN Skipped ELSE ChangedFile("D", <<>>)
    ELSE Failed

Store(acc, d, rec) ==
    [acc EXCEPT ![d.change_type] = Update(@, [p \in {d.path} |-> rec])]

\* lines 252-337: the five dicts by change type and, in ret, "error" if
\* an exception ended the loop
RECURSIVE DiffLoop(_, _)
DiffStep(ds, acc, rec) ==
    IF rec = Failed THEN [acc EXCEPT !.ret = "error"]
    ELSE IF rec = Skipped THEN DiffLoop(Tail(ds), acc)
    ELSE DiffLoop(Tail(ds), Store(acc, Head(ds), rec))

DiffLoop(ds, acc) ==
    IF ds = <<>> THEN acc
    ELSE IF IsBinary(Head(ds).text) \/ Len(Head(ds).text) = 0
    THEN DiffLoop(Tail(ds), acc)
    ELSE IF DiffLinesSpec(Head(ds).text) = Raised
    THEN [acc EXCEPT !.ret = "error"]
    ELSE DiffStep(ds, acc, RecordOf(Head(ds), DiffLinesSpec(Head(ds).text)))

find_changed_files(ds) == DiffLoop(ds, NoFound)

\* line 594 compares os.path.splitext(path), a pair, with the string ".py"
SplitextIsDotPy(path) == FALSE

\* lines 339-345, with every ignored prefix a project file
should_ignore_source_file(source_file) == source_file \in ignore_source

\* lines 592-604
MergeChanged(added_files, modified_files, renamed_files, changed_filetype_files) ==
    LET changed_to_py ==
            [p \in {q \in DOMAIN changed_filetype_files : SplitextIsDotPy(q)} |->
                changed_filetype_files[p]]
        merged == Update(Update(Update(Update(EmptyMap, changed_to_py),
                                       modified_files), renamed_files), added_files)
    IN  [p \in {q \in DOMAIN merged : ~should_ignore_source_file(q)} |-> merged[p]]

\* lines 607-609
ChangedMembersAndModules(cf) ==
    [p \in DOMAIN cf |-> find_changed_members(cf[p].changed_lines, FileModule(p), LineCount(p))]

\* lines 574-575: for p in self.packages: sys.path.insert(0, p)
RECURSIVE InsertAll(_, _)
InsertAll(pk, sp) ==
    IF pk = <<>> THEN sp ELSE InsertAll(Tail(pk), <<Head(pk)>> \o sp)

\* a variant that pops the last entry of sys.path instead of the first
RECURSIVE revert_syspath_from_end(_, _)
revert_syspath_from_end(sp, n) ==
    IF n = 0 THEN sp ELSE revert_syspath_from_end(Pop(sp), n - 1)

\* lines 738-740: for _ in range(0, len(self.packages)): sys.path.pop(0)
RECURSIVE revert_syspath(_, _)
revert_syspath(sp, n) ==
    IF n = 0 THEN sp ELSE revert_syspath(Tail(sp), n - 1)

PackageDirs == <<"pkg", "pkg/sub", "pkg/sub/deep">>
PackageLists == {SubSeq(PackageDirs, 1, k) : k \in 0..MaxPackages}

OptionsUsed ==
    Cardinality(fixtures) + Cardinality(ignore_source)
        + Cardinality({p \in AllFiles : faulty[p] # "ok"})

InitRun ==
    /\ InitGraph(MaxRunEdges, 0)
    /\ seed = EmptyMap
    /\ change_map = EmptyMap
    /\ unchanged_map = EmptyMap
    /\ query = <<>>
    /\ ret = "none"
    /\ chain = <<>>
    /\ parsed = <<>>
    /\ queries = 0
    /\ balanced = TRUE
    /\ pre = [cm |-> EmptyMap, um |-> EmptyMap, parsed |-> <<>>]
    /\ NoModule
    /\ NoImport
    /\ pc = "idle"
    /\ sys_path = PlainPath
    /\ sys_path0 = PlainPath
    /\ packages = <<>>
    /\ changed_files = EmptyMap
    /\ item = NoItem
    /\ n_items = 0
    /\ first_commit = FALSE
    /\ diffs = <<>>
    /\ found = NoFound
    /\ fixtures \in SUBSET Names
    /\ ignore_source \in SUBSET ProjectFiles
    /\ faulty \in [AllFiles -> {"ok", "read", "import"}]
    /\ \A p \in OutsideFiles : faulty[p] = "ok"
    /\ OptionsUsed <= MaxOptions

\* lines 222-236 and 583-588: every python file of the repository that is
\* not ignored, as an added file; read_file raises for an unreadable one
find_all_files ==
    [NoFound EXCEPT
        !.A = [p \in {q \in ProjectFiles : ~should_ignore_source_file(q)} |->
                  ChangedFile("A", <<<<1, LineCount(p)>>>>)],
        !.ret = IF \E p \in ProjectFiles :
                      ~should_ignore_source_file(p) /\ faulty[p] = "read"
                THEN "error" ELSE "none"]

\* the diffs of a project file: one of each change type but the deletion,
\* which run() ignores, and the modifications with the hunk header
\* @@ -l,2 +l,2 @@ of each symbol
RunDiffs ==
    {Diff(t, p, PatchOf(PlainHeader), <<<<1, 2>>, <<1, 2>>>>) :
        t \in ChangeTypes \ {"M", "D"}, p \in ProjectFiles}
    \cup UNION {{Diff("M", p, PatchOf(HunkHeader(<<2 * k - 1, 2>>, <<2 * k - 1, 2>>)),
                      <<<<2 * k - 1, 2>>, <<2 * k - 1, 2>>>>) : k \in DOMAIN SymbolsOf(p)}
                : p \in ProjectFiles}

RECURSIVE RunDiffLists(_)
RunDiffLists(n) ==
    IF n = 0 THEN {<<>>}
    ELSE RunDiffLists(n - 1) \cup {Append(l, d) : l \in RunDiffLists(n - 1), d \in RunDiffs}

\* lines 582-609: the changed files, merged, and their changed members;
\* find_changed_members reads the file (line 350)
Changes(fc) ==
    LET cf == MergeChanged(fc.A, fc.M, fc.R, fc.T)
    IN  [ret |-> IF fc.ret = "error" \/ \E p \in DOMAIN cf : faulty[p] = "read"
                 THEN "error" ELSE "none",
         changed_files |-> cf]

\* run() up to the loop over the items (lines 570-615).  no_repo: there is
\* no git repository above rootdir (line 571, before the try); fresh: the
\* head has fewer than two commits; on_branch: the branch to compare with
\* is the active branch (both line 582); ds: the diffs that
\* find_changed_files sees.  A list of packages other than the plain one
\* comes with the plain setup and with a diff that changes nothing.
RunStart(ds, pk, no_repo, fresh, on_branch) ==
    /\ pc = "idle"
    /\ Len(pk) # 1 =>
          /\ OptionsUsed < MaxOptions
          /\ ~fresh
          /\ \A i \in DOMAIN ds : ds[i].change_type \in {"T", "X"}
    /\ (fresh => ds = <<>>)
    /\ (~fresh => on_branch)
    /\ IF no_repo
       THEN /\ pc' = "raised"
            /\ ret' = "error"
            /\ UNCHANGED <<sys_path, packages, changed_files, seed, change_map,
                           first_commit, diffVars>>
       ELSE /\ packages' = pk
            /\ first_commit' = fresh
            /\ diffs' = ds
            /\ found' = IF on_branch /\ fresh
                        THEN find_all_files
                        ELSE find_changed_files(ds)
            /\ IF Changes(found').ret = "error"
               THEN /\ pc' = "raised"
                    /\ ret' = "error"
                    /\ sys_path' = revert_syspath(InsertAll(pk, sys_path), Len(pk))
                    /\ UNCHANGED <<changed_files, seed, change_map>>
               ELSE /\ pc' = "items"
                    /\ ret' = "none"
                    /\ sys_path' = InsertAll(pk, sys_path)
                    /\ changed_files' = Changes(found').changed_files
                    /\ seed' = ChangedMembersAndModules(changed_files')
                    /\ change_map' = seed'
    /\ UNCHANGED <<fileOf, uses, bases, faulty, unchanged_map, query, chain,
                   parsed, queries, balanced, pre, memberVars, sys_path0,
                   ignore_source, fixtures, item, n_items, importVars>>

\* FixtureExtractor.extract: the fixtures the test file defines
FileFixtures(path) == InOrder(SymbolsOf(path), fixtures)

\* lines 683-685 as one list: for fixture in fixtures: for arg in args
RECURSIVE FixtureArgPairs(_, _)
FixtureArgPairs(fs, args) ==
    IF fs = <<>> THEN <<>>
    ELSE [i \in DOMAIN args |-> <<Head(fs), args[i]>>] \o FixtureArgPairs(Tail(fs), args)

\* lines 682-699: r.ret is "true" when a fixture argument changed, "none"
\* when none did, or the exception a walk raised
RECURSIVE FixtureLoop(_, _, _, _)
\* lines 685-699: r is the answer of the walk from the fixture pairs[1]
FixtureStep(path, pairs, r, ord) ==
    IF r.ret = "false" THEN FixtureLoop(path, Tail(pairs), r, ord) ELSE r

FixtureLoop(path, pairs, st, ord) ==
    IF pairs = <<>> THEN [st EXCEPT !.ret = "none"]
    ELSE IF pairs[1][2] # pairs[1][1]
    THEN FixtureLoop(path, Tail(pairs), st, ord)
    ELSE FixtureStep(path, pairs,
                     TopLevel(path, pairs[1][1], st.cm, st.um, st.parsed, ord), ord)

Verdict(test, action, reason, marked, fix, dep) ==
    [name |-> test.name, path |-> test.path, lastfailed |-> test.lastfailed,
     skip |-> test.skip, args |-> test.args,
     action |-> action, reason |-> reason, marked |-> marked, fix |-> fix, dep |-> dep]

\* a variant that marks the test whatever the walk has answered
DependencyVerdict_MarkAlways(test, fix, r) ==
    IF r.ret = "true"
    THEN [rec |-> Verdict(test, "RUN", "Dependency changed", TRUE, fix, "true"), w |-> r]
    ELSE IF r.ret = "false"
    THEN [rec |-> Verdict(test, "SKIP", "Unchanged", TRUE, fix, "false"), w |-> r]
    ELSE [rec |-> Verdict(test, "none", "", FALSE, fix, r.ret), w |-> r]

\* lines 701-719: the verdict once the walk from the test has answered r
DependencyVerdict(test, fix, r) ==
    IF r.ret = "true"
    THEN [rec |-> Verdict(test, "RUN", "Dependency changed", FALSE, fix, "true"), w |-> r]
    ELSE IF r.ret = "false"
    THEN [rec |-> Verdict(test, "SKIP", "Unchanged", TRUE, fix, "false"), w |-> r]
    ELSE [rec |-> Verdict(test, "none", "", FALSE, fix, r.ret), w |-> r]

\* lines 690-703: the verdict once the fixture loop has answered f; fix
\* records whether a walk from a fixture was made
FixtureVerdict(test, w, f, ord) ==
    IF f.ret = "true"
    THEN [rec |-> Verdict(test, "RUN", "Uses changed fixture", FALSE, "true", "none"), w |-> f]
    ELSE IF f.ret \in Exceptions
    THEN [rec |-> Verdict(test, "none", "", FALSE, f.ret, "none"), w |-> f]
    ELSE DependencyVerdict(test,
                           IF f.parsed = w.parsed /\ f.um = w.um /\ f.chain = <<>>
                                 /\ f.vm = EmptyMap
                           THEN "none" ELSE "false",
                           TopLevel(test.path, test.name, f.cm, f.um, f.parsed, ord))

\* one iteration of the loop of lines 617-719 for the item test; w: the
\* memos and the parse log.  The result holds the log record of the item
\* (action "none" if an exception ended the loop) and the walk state.
ProcessItem(test, w, ord) ==
    IF test.path \in DOMAIN changed_files /\ changed_files[test.path].change_type = "A"
    THEN [rec |-> Verdict(test, "RUN", "New test", FALSE, "none", "none"), w |-> w]
    ELSE IF test.lastfailed
    THEN [rec |-> Verdict(test, "RUN", "Failed on last run", FALSE, "none", "none"), w |-> w]
    ELSE IF test.skip
    THEN [rec |-> Verdict(test, "SKIP", "Found skip marker", FALSE, "none", "none"), w |-> w]
    ELSE IF faulty[test.path] = "read"
    THEN [rec |-> Verdict(test, "none", "", FALSE, "none", "none"),
          w |-> [w EXCEPT !.ret = "error"]]
    ELSE FixtureVerdict(test, w,
                        FixtureLoop(test.path,
                                    FixtureArgPairs(FileFixtures(test.path), test.args),
                                    w, ord),
                        ord)

\* the parameters a test declares: none, or one that names a fixture
ArgLists == {<<>>} \cup {<<n>> : n \in fixtures}

\* run() is over: its local variables are gone
LocalsDropped ==
    /\ changed_files' = EmptyMap
    /\ seed' = EmptyMap
    /\ change_map' = EmptyMap
    /\ unchanged_map' = EmptyMap
    /\ parsed' = <<>>
    /\ pre' = [cm |-> EmptyMap, um |-> EmptyMap, parsed |-> <<>>]
    /\ item' = NoItem
    /\ first_commit' = FALSE
    /\ diffs' = <<>>
    /\ found' = NoFound

\* the next item of the list given to run(); an exception is handled by
\* lines 731-736: the search path is reverted and the exception raised
\* again, its message holding the chain of a cycle
RunItem(name, lf, skip, args) ==
    /\ pc = "items"
    /\ n_items < MaxItems
    /\ \E ord \in Orders :
       \E o \in {ProcessItem([name |-> name, path |-> fileOf[name], lastfailed |-> lf,
                                skip |-> skip, args |-> args],
                               WalkState(change_map, unchanged_map, parsed), ord)} :
             /\ chain' = o.w.chain
             /\ ret' = o.w.ret
             /\ IF o.w.ret \in Exceptions
                THEN /\ pc' = "raised"
                     /\ sys_path' = revert_syspath(sys_path, Len(packages))
                     /\ LocalsDropped
                ELSE /\ item' = o.rec
                     /\ change_map' = o.w.cm
                     /\ unchanged_map' = o.w.um
                     /\ parsed' = o.w.parsed
                     /\ pre' = [cm |-> change_map, um |-> unchanged_map, parsed |-> parsed]
                     /\ UNCHANGED <<pc, sys_path, changed_files, seed, first_commit,
                                    diffVars>>
    /\ n_items' = n_items + 1
    /\ UNCHANGED <<fileOf, uses, bases, faulty, query, queries, balanced, memberVars,
                   sys_path0, packages, ignore_source, fixtures, importVars>>

\* lines 721-736: the report is written and the search path reverted; if
\* writing raises, the handler reverts the search path
RunFinish(written) ==
    /\ pc = "items"
    /\ sys_path' = revert_syspath(sys_path, Len(packages))
    /\ pc' = IF written THEN "returned" ELSE "raised"
    /\ ret' = IF written THEN "none" ELSE "error"
    /\ chain' = <<>>
    /\ LocalsDropped
    /\ UNCHANGED <<fileOf, uses, bases, faulty, query, queries, balanced, memberVars,
                   sys_path0, packages, ignore_source, fixtures, n_items,
                   importVars>>

NextRun ==
    \/ \E ds \in RunDiffLists(MaxDiffs) : \E pk \in PackageLists :
         \E no_repo \in BOOLEAN : \E fresh \in BOOLEAN :
            \E on_branch \in BOOLEAN :
                RunStart(ds, pk, no_repo, fresh, on_branch)
    \/ \E name \in Names : \E lf \in BOOLEAN : \E skip \in BOOLEAN : \E args \in ArgLists :
         RunItem(name, lf, skip, args)
    \/ \E written \in BOOLEAN : RunFinish(written)

SpecRun == InitRun /\ [][NextRun]_vars

\* ------------------------------------------- the declared-use graph
\* s -> n: s declares the use of n (a call or a base class), and n is a
\* symbol of the same file or one imported from another project file
DeclaredUse(s, n) ==
    /\ <<s, n>> \in uses \cup bases
    /\ file_in_project(fileOf[s])
    /\ file_in_project(fileOf[n])

Succ(S) == S \cup {n \in Names : \E s \in S : DeclaredUse(s, n)}

RECURSIVE Closure(_)
Closure(S) == IF Succ(S) = S THEN S ELSE Closure(Succ(S))

Reach(s) == Closure({s})
Acyclic == \A s \in Names : \A n \in Names : DeclaredUse(s, n) => s \notin Reach(n)

SeedChanged == {n \in Names : InMap(fileOf[n], n, seed)}
Asked == query # <<>>
AskedName == query[2]

\* C1: on an acyclic dependency graph, a top-level call on a symbol from
\* which a locally-changed symbol is reachable through declared uses (same
\* file or imported) returns true, whatever earlier queries left in the memos.
C1_ReachableChangeReturnsTrue ==
    (Asked /\ Acyclic /\ file_in_project(query[1])
        /\ Reach(AskedName) \cap SeedChanged # {})
    => ret = "true"

\* C2: two functions of one file that call each other and nothing else,
\* neither locally changed: the call on either raises the cycle error.
MutualPair(s, n) ==
    /\ s # n
    /\ fileOf[s] = fileOf[n]
    /\ file_in_project(fileOf[s])
    /\ {e \in uses \cup bases : e[1] \in {s, n}} = {<<s, n>>, <<n, s>>}
    /\ bases = {}
    /\ SeedChanged \cap {s, n} = {}

C2_MutualRecursionRaisesCycle ==
    (Asked /\ \E n \in Names : MutualPair(AskedName, n)) => ret = "cycle"

\* C3: when a call given an empty chain returns true, the chain is the path
\* from the queried symbol to the locally-changed symbol, both included.
IsChangePath(c) ==
    /\ Len(c) >= 1
    /\ c[1] = query
    /\ \A i \in DOMAIN c : c[i][1] = fileOf[c[i][2]]
    /\ \A i \in 1..(Len(c) - 1) : DeclaredUse(c[i][2], c[i + 1][2])
    /\ c[Len(c)][2] \in SeedChanged

C3_ChainIsPathToChange ==
    (Asked /\ ret = "true") => IsChangePath(chain)

\* C7: a function whose only declared use is a call to itself, not itself
\* locally changed, is unchanged: no change propagates and no cycle is raised.
OnlyCallsItself(s) ==
    /\ {e \in uses : e[1] = s} = {<<s, s>>}
    /\ {e \in bases : e[1] = s} = {}
    /\ s \notin SeedChanged

C7_SelfCallIsUnchanged ==
    (Asked /\ OnlyCallsItself(AskedName)) => ret = "false"

C7_Witness ==
    /\ Asked /\ OnlyCallsItself(AskedName) /\ ret = "false"
    /\ file_in_project(query[1])
    /\ parsed # <<>> /\ parsed[Len(parsed)] = query

\* C8: every top-level call ends, with true, false or the cycle error: the
\* walk never nests deeper than the distinct chain entries allow.
C8_WalkTerminates ==
    Asked => ret \in {"true", "false", "cycle"}

C8_Witness ==
    Asked /\ ret = "cycle" /\ Len(chain) >= 3

\* C9: a call on a pair already in the change memo or the unchanged memo
\* returns the memoized verdict and parses nothing; no pair is parsed twice
\* in a run.
HitChanged == Asked /\ InMap(query[1], query[2], pre.cm)
HitUnchanged == Asked /\ ~HitChanged /\ InMap(query[1], query[2], pre.um)

C9_MemoHitParsesNothing ==
    /\ HitChanged => (ret = "true" /\ parsed = pre.parsed)
    /\ HitUnchanged => (ret = "false" /\ parsed = pre.parsed)
    /\ \A i \in DOMAIN parsed : Count(parsed, parsed[i]) = 1

C9_Witness ==
    /\ HitUnchanged /\ ret = "false"
    /\ Count(parsed, query) = 1
    /\ parsed = pre.parsed

\* C10: a pair once in the change memo or in the unchanged memo stays in it,
\* and no pair is in both memos.
Pairs == AllFiles \X Names
MemoKept(m, n) == \A pr \in Pairs : InMap(pr[1], pr[2], m) => InMap(pr[1], pr[2], n)
MemosDisjoint(cm, um) ==
    \A pr \in Pairs : ~(InMap(pr[1], pr[2], cm) /\ InMap(pr[1], pr[2], um))

C10_MemosMonotonic ==
    /\ MemoKept(seed, change_map)
    /\ MemoKept(pre.cm, change_map)
    /\ MemoKept(pre.um, unchanged_map)
    /\ MemosDisjoint(change_map, unchanged_map)

C10_Witness ==
    /\ queries = 2
    /\ pre.um # EmptyMap
    /\ unchanged_map # pre.um
    /\ SeedChanged # {}
    /\ \E p \in DOMAIN unchanged_map : Len(unchanged_map[p]) >= 2

\* the declared uses of the asked symbol other than its own name
OtherUses == UsedNames(query[1], AskedName) \ {AskedName}

\* C19: dependencies_changed concludes unchanged only after it has evaluated
\* every declared use of the symbol other than its own name: no use that is
\* seeded as changed is left, and no order of the used names, with a changed
\* use after an unchanged or unresolved one, gives another answer.
C19_EveryUseIsEvaluated ==
    Asked /\ ret = "false" /\ file_in_project(query[1]) =>
        /\ \A n \in OtherUses : ~InMap(fileOf[n], n, seed)
        /\ \A ord \in Perms :
              TopLevel(query[1], AskedName, pre.cm, pre.um, pre.parsed, ord).ret = "false"

\* a use was found unchanged by this call before a changed use was met
C19_Witness ==
    /\ Asked
    /\ ret = "true"
    /\ ~InMap(query[1], AskedName, pre.cm)
    /\ \E n1 \in OtherUses : \E n2 \in OtherUses :
          /\ n1 # n2
          /\ ~InMap(fileOf[n1], n1, pre.um)
          /\ InMap(fileOf[n1], n1, unchanged_map)
          /\ InMap(fileOf[n2], n2, seed)

\* the last call walked into a name that was found unchanged
NestedFalse ==
    \E p \in DOMAIN unchanged_map : \E n \in Range(unchanged_map[p]) :
        /\ <<p, n>> # query
        /\ ~InMap(p, n, pre.um)

\* C20: whenever a call of dependencies_changed returns false, the chain
\* is equal to its value just before that call: every entry the call and
\* its nested calls appended has been popped.
C20_FalseLeavesChainAsFound ==
    Asked =>
        /\ balanced
        /\ ret = "false" => chain = <<>>

C20_Witness ==
    /\ Asked
    /\ ret = "false"
    /\ Len(parsed) > Len(pre.parsed) + 1
    /\ NestedFalse

\* the verdict of the asked pair had it been the first query of the run,
\* with the seeded change set and empty memos
AskedFirst(ord) == TopLevel(query[1], AskedName, seed, EmptyMap, <<>>, ord).ret

\* C22: the verdict for a pair does not depend on the queries processed
\* before it in the run: asked after other queries it is the verdict the
\* pair gets when it is asked first from the same seeded change set.
C22_VerdictIgnoresQueryOrder ==
    Asked /\ queries > 1 /\ ret \in {"true", "false"} =>
        \A ord \in Orders :
            AskedFirst(ord) \in {"true", "false"} => AskedFirst(ord) = ret

\* C24: dependencies_changed returns true for a pair only if a symbol of
\* the seeded change set is reachable from it through declared uses: the
\* entries earlier queries added to the change memo never make a symbol
\* with no path to a seeded change report changed.
C24_TrueOnlyIfSeedReachable ==
    Asked /\ ret = "true" => Reach(AskedName) \cap SeedChanged # {}

\* the answer came from an entry an earlier query added to the change memo
C24_Witness ==
    /\ Asked /\ ret = "true"
    /\ ~InMap(query[1], AskedName, seed)
    /\ InMap(query[1], AskedName, pre.cm)

\* ------------------------------------------------- the walk of a diamond
\* Four symbols: f uses g and h, and both use k; further uses may join them
\* without closing a cycle.  The symbols live in any files.
DiamondOrder == NameOrder \o <<"k">>
DiamondNames == Range(DiamondOrder)
DiamondPerms == {p \in [DOMAIN DiamondOrder -> DiamondNames] : Range(p) = DiamondNames}
DiamondUses == {<<"f", "g">>, <<"f", "h">>, <<"g", "k">>, <<"h", "k">>}
ExtraUses == {<<"g", "h">>, <<"f", "k">>}

InitDiamond ==
    /\ fileOf \in [DiamondNames -> AllFiles]
    /\ uses \in {DiamondUses \cup X : X \in SUBSET ExtraUses}
    /\ bases = {}
    /\ faulty = [p \in AllFiles |-> "ok"]
    /\ \E changed \in {C \in SUBSET {n \in DiamondNames : file_in_project(fileOf[n])} :
                          Cardinality(C) <= MaxChanged} :
       \E keys \in SUBSET ProjectFiles :
          /\ {fileOf[n] : n \in changed} \subseteq keys
          /\ seed = [p \in keys |->
                        InOrder(DiamondOrder, {n \in changed : fileOf[n] = p})]
    /\ change_map = seed
    /\ unchanged_map = EmptyMap
    /\ query = <<>>
    /\ ret = "none"
    /\ chain = <<>>
    /\ parsed = <<>>
    /\ queries = 0
    /\ balanced = TRUE
    /\ pre = [cm |-> seed, um |-> EmptyMap, parsed |-> <<>>]
    /\ NoModule
    /\ NoRun
    /\ NoImport

\* one top-level call, the first of the run
QueryDiamond(name) ==
    /\ queries = 0
    /\ \E ord \in DiamondPerms :
       \E r \in {TopLevel(fileOf[name], name, change_map, unchanged_map, parsed, ord)} :
             /\ change_map' = r.cm
             /\ unchanged_map' = r.um
             /\ ret' = r.ret
             /\ chain' = r.chain
             /\ parsed' = r.parsed
             /\ balanced' = r.balanced
    /\ query' = <<fileOf[name], name>>
    /\ queries' = queries + 1
    /\ pre' = [cm |-> change_map, um |-> unchanged_map, parsed |-> parsed]
    /\ UNCHANGED <<projVars, memberVars, runVars, diffVars, importVars>>

NextDiamond == \E name \in DiamondNames : QueryDiamond(name)

SpecDiamond == InitDiamond /\ [][NextDiamond]_vars

NothingChanged == \A p \in DOMAIN seed : seed[p] = <<>>

\* C23: a diamond is not a cycle: with f using g and h, both using k, and
\* nothing changed, the call on f returns false and raises no cycle error
\* on the second visit of k.
C23_DiamondIsNotACycle ==
    Asked /\ AskedName = "f" /\ NothingChanged =>
        /\ ret = "false"
        /\ chain = <<>>

\* the walk from f went through g and through h, and each called into k
C23_Witness ==
    /\ Asked /\ AskedName = "f" /\ NothingChanged
    /\ ret = "false"
    /\ \A e \in DiamondUses : ImportedPaths(fileOf[e[1]], e[2]) # <<>>
    /\ Range(parsed) = {<<fileOf[n], n>> : n \in DiamondNames}

\* --------------------------------- find_changed_members on bounded modules
\* A module layout gives every member name a kind and a declaration line, or
\* 0 when the module does not define it.  Statements do not share lines,
\* except the targets of one assignment.
Layouts ==
    {l \in [MemberNames -> [kind : Kinds, lineno : 0..MaxLines]] :
        \A a \in MemberNames : \A b \in MemberNames :
            (a # b /\ l[a].lineno # 0 /\ l[a].lineno = l[b].lineno)
                => (l[a].kind = "assignments" /\ l[b].kind = "assignments")}

MemberOrder == <<"f", "g", "util">>

\* the dict of one kind, in the order the visitor fills it
KindDict(l, kind) ==
    SortedByLine(
        [i \in 1..Len(InOrder(MemberOrder, {a \in MemberNames : l[a].lineno # 0 /\ l[a].kind = kind})) |->
            LET a == InOrder(MemberOrder, {b \in MemberNames : l[b].lineno # 0 /\ l[b].kind = kind})[i]
            IN  <<a, l[a].lineno>>])

ModuleOf(l) ==
    [classes |-> KindDict(l, "classes"),
     functions |-> KindDict(l, "functions"),
     assignments |-> KindDict(l, "assignments")]

LineRanges == {r \in (1..(MaxLines + 1)) \X (1..(MaxLines + 1)) : r[1] <= r[2]}
RangeLists == UNION {[1..k -> LineRanges] : k \in 0..MaxRanges}

NoWalk ==
    /\ fileOf = [n \in Names |-> "a.py"]
    /\ uses = {}
    /\ bases = {}
    /\ faulty = [p \in AllFiles |-> "ok"]
    /\ seed = EmptyMap
    /\ change_map = EmptyMap
    /\ unchanged_map = EmptyMap
    /\ query = <<>>
    /\ ret = "none"
    /\ chain = <<>>
    /\ parsed = <<>>
    /\ queries = 0
    /\ balanced = TRUE
    /\ pre = [cm |-> EmptyMap, um |-> EmptyMap, parsed |-> <<>>]

InitMembers ==
    /\ NoWalk
    /\ NoRun
    /\ NoImport
    /\ \E l \in Layouts :
         /\ module_info = ModuleOf(l)
         /\ total_lines \in 1..MaxLines
         /\ \A a \in MemberNames : l[a].lineno <= total_lines
         /\ \A a \in MemberNames : l[a].lineno = 0 => l[a].kind = "functions"
    /\ changed_lines \in RangeLists
    /\ changed_members = <<>>
    /\ located = FALSE

LocateMembers ==
    /\ ~located
    /\ changed_members' = find_changed_members(changed_lines, module_info, total_lines)
    /\ located' = TRUE
    /\ UNCHANGED <<projVars, walkVars, runVars, diffVars, importVars, module_info, total_lines,
                   changed_lines>>

NextMembers == LocateMembers

SpecMembers == InitMembers /\ [][NextMembers]_vars

\* the spans of the data model: [declaration line, next declaration line),
\* the last one up to and including the last line of the file
Declared == SortedByLine(DirectChildren(module_info))
SpanOf(idx) ==
    IF idx < Len(Declared)
    THEN Declared[idx][2]..(Declared[idx + 1][2] - 1)
    ELSE Declared[idx][2]..total_lines

\* C4: a changed-line set inside the span of the symbol A and disjoint from
\* the span of every other symbol makes find_changed_members return exactly
\* the name A.
OnlyInSpan(idx) ==
    /\ ChangedLineSet(changed_lines) # {}
    /\ ChangedLineSet(changed_lines) \subseteq SpanOf(idx)
    /\ \A j \in DOMAIN Declared : j # idx => ChangedLineSet(changed_lines) \cap SpanOf(j) = {}

C4_ExactlyTheChangedSymbol ==
    located => \A idx \in DOMAIN Declared :
        OnlyInSpan(idx) => Range(changed_members) = {Declared[idx][1]}

\* find_changed_members has put the symbol of index idx in its result
\* (its name, or with the extend of line 383 the characters of its name)
Marked(idx) == Range(StrChars(Declared[idx][1])) \subseteq Range(changed_members)

\* C18: the symbols are ordered by declaration line, the span of each is
\* [its declaration line, the next declaration line), and the span of the
\* last one reaches the end of the file: a change on any line from its
\* declaration line up to and including the final line marks it as changed.
C18_LastSpanReachesEndOfFile ==
    located =>
        \A idx \in DOMAIN Declared :
            /\ idx < Len(Declared) => Declared[idx][2] <= Declared[idx + 1][2]
            /\ Marked(idx) <=> ChangedLineSet(changed_lines) \cap SpanOf(idx) # {}

\* C25: every top-level symbol whose declaration line is in the changed-line
\* set is reported by find_changed_members, each target of an assignment
\* that declares several names on one line included.  (The final line of
\* the file is left aside here.)
C25_ChangedDeclarationIsReported ==
    located =>
        \A idx \in DOMAIN Declared :
            /\ Declared[idx][2] \in ChangedLineSet(changed_lines)
            /\ Declared[idx][2] < total_lines
            => Marked(idx)

\* --------------------------------------------------------- claims on run()
Exited == pc \in {"returned", "raised"}

\* C5: after run() returns or raises, by any exit path, sys.path equals its
\* value before the call: every inserted package path was removed once and
\* no other entry was removed.
C5_SysPathRestored == Exited => sys_path = sys_path0

C5_Witness ==
    /\ pc = "raised"
    /\ ret = "cycle"
    /\ Len(packages) = MaxPackages
    /\ sys_path = sys_path0

Judged == pc = "items" /\ item # NoItem
NewlyAdded(path) == path \in DOMAIN changed_files /\ changed_files[path].change_type = "A"
FixtureChanged(test) ==
    \E a \in Range(test.args) :
        /\ a \in Range(FileFixtures(test.path))
        /\ Reach(a) \cap SeedChanged # {}
DependsOnChange(test) == Reach(test.name) \cap SeedChanged # {}

\* the verdict of the first matching rule; "KEEP" is the skip-marked test
\* left as it is
RuleVerdict(test) ==
    IF NewlyAdded(test.path) THEN "RUN"
    ELSE IF test.lastfailed THEN "RUN"
    ELSE IF test.skip THEN "KEEP"
    ELSE IF FixtureChanged(test) THEN "RUN"
    ELSE IF DependsOnChange(test) THEN "RUN"
    ELSE "SKIP"

\* C6: the verdict of a test item is that of the first matching rule: new
\* file => RUN; failed last run => RUN; skip marker => left as is without a
\* walk; a fixture argument resolves to a change => RUN; the test symbol
\* depends on a change => RUN; otherwise SKIP.
C6_FirstMatchingRule ==
    Judged =>
        CASE RuleVerdict(item) = "RUN" -> item.action = "RUN"
          [] RuleVerdict(item) = "KEEP" ->
                /\ item.reason = "Found skip marker"
                /\ ~item.marked
                /\ parsed = pre.parsed
          [] RuleVerdict(item) = "SKIP" -> item.action = "SKIP" /\ item.marked

\* ------------------------------------------ claims on files outside the root
OutsideAsked == Asked /\ query[1] \in OutsideFiles

\* C11: for a symbol whose file lies outside the project root,
\* dependencies_changed returns false and records the pair in the unchanged
\* memo; it never reads or parses the file and never recurses from it.
C11_OutsideIsUnchanged ==
    /\ \A i \in DOMAIN parsed : parsed[i][1] \notin OutsideFiles
    /\ OutsideAsked =>
          /\ ret = "false"
          /\ InMap(query[1], AskedName, unchanged_map)
          /\ parsed = pre.parsed
          /\ change_map = pre.cm
          /\ chain = <<>>

C11_Witness ==
    /\ OutsideAsked
    /\ queries = 1
    /\ ret = "false"
    /\ unchanged_map = [p \in {query[1]} |-> <<AskedName>>]

\* ------------------------------------------- find_changed_files on its own
DiffPaths == ProjectFiles \cup {"notes.txt"}

Sides ==
    {<<a>> : a \in 1..MaxStart} \cup {<<a, b>> : a \in 1..MaxStart, b \in 0..MaxCount}
OddPatches == {BinaryPatch, EmptyPatch, HeaderlessPatch, GarbledPatch}


\* diffs of every change type with the plain header or an odd payload
PlainDiffs ==
    {Diff(t, p, PatchOf(PlainHeader), <<<<1, 2>>, <<1, 2>>>>) : t \in ChangeTypes, p \in DiffPaths}
        \cup {Diff(t, p, x, <<>>) : t \in ChangeTypes, p \in DiffPaths, x \in OddPatches}

\* modifications of a.py with the hunk header of any two sides, or of one
HunkDiffs ==
    {Diff("M", "a.py", PatchOf(HunkHeader(o, n)), <<o, n>>) : o \in Sides, n \in Sides}
        \cup {Diff("M", "a.py", PatchOf(HunkHeader(o, <<>>)), <<o>>) : o \in Sides}

\* lists of at most n plain diffs
RECURSIVE PlainLists(_)
PlainLists(n) ==
    IF n = 0 THEN {<<>>}
    ELSE PlainLists(n - 1) \cup {Append(l, d) : l \in PlainLists(n - 1), d \in PlainDiffs}

NoDiff == Diff("none", "none", <<>>, <<>>)

InitDiff ==
    /\ NoWalk
    /\ NoModule
    /\ NoRun
    /\ NoImport

\* find_changed_files on a list of at most MaxEntries diffs, of which the
\* last may have a hunk header of its own
FindChangedFiles ==
    /\ pc = "idle"
    /\ \E l \in PlainLists(MaxEntries - 1) :
       \E d \in PlainDiffs \cup HunkDiffs \cup {NoDiff} :
          /\ diffs' = IF d = NoDiff THEN l ELSE Append(l, d)
          /\ found' = find_changed_files(diffs')
    /\ pc' = IF found'.ret = "error" THEN "raised" ELSE "returned"
    /\ UNCHANGED <<projVars, walkVars, memberVars, importVars, sys_path, sys_path0, packages,
                   ignore_source, fixtures, changed_files, item, n_items,
                   first_commit>>

NextDiff == FindChangedFiles

SpecDiff == InitDiff /\ [][NextDiff]_vars

\* ------------------------------------------- claims on find_changed_files
\* the diff i is the last of its change type for its path
LastOfKey(i) ==
    \A j \in DOMAIN diffs :
        j > i => ~(diffs[j].path = diffs[i].path /\ diffs[j].change_type = diffs[i].change_type)

ModifiedPy(d) == d.change_type = "M" /\ IsPy(d.path) /\ Len(d.hunk) = 2
HasCount(side) == Len(side) = 2
RangesOf(i) == found.M[diffs[i].path].changed_lines

\* C12: for a Modified file whose hunk header carries both pairs
\* '-a,b +c,d', find_changed_files yields exactly the two half-open ranges
\* [a, a+b) and [c, c+d), in that order.
C12_BothPairsGiveBothRanges ==
    pc = "returned" =>
        \A i \in DOMAIN diffs :
            /\ ModifiedPy(diffs[i]) /\ LastOfKey(i)
            /\ HasCount(diffs[i].hunk[1]) /\ HasCount(diffs[i].hunk[2])
            => /\ diffs[i].path \in DOMAIN found.M
               /\ RangesOf(i) =
                     <<<<diffs[i].hunk[1][1], diffs[i].hunk[1][1] + diffs[i].hunk[1][2]>>,
                       <<diffs[i].hunk[2][1], diffs[i].hunk[2][1] + diffs[i].hunk[2][2]>>>>

C12_Witness ==
    /\ pc = "returned"
    /\ diffs = <<Diff("M", "a.py",
                      <<"@", "@", " ", "-", "2", ",", "0", " ", "+", "3", ",", "4",
                        " ", "@", "@", "\n", "+", "x">>,
                      <<<<2, 0>>, <<3, 4>>>>)>>
    /\ found.M = [p \in {"a.py"} |-> ChangedFile("M", <<<<2, 2>>, <<3, 7>>>>)]

\* the range of a side whose count, when omitted, is 1
SideAsGit(side) == <<side[1], side[1] + (IF HasCount(side) THEN side[2] ELSE 1)>>

\* C13: when a hunk header of a Modified file omits a count, the count is
\* taken as 1: the range of that side is [start, start+1).
C13_OmittedCountIsOne ==
    pc = "returned" =>
        \A i \in DOMAIN diffs :
            /\ ModifiedPy(diffs[i]) /\ LastOfKey(i)
            /\ ~HasCount(diffs[i].hunk[1]) \/ ~HasCount(diffs[i].hunk[2])
            => /\ diffs[i].path \in DOMAIN found.M
               /\ RangesOf(i) = <<SideAsGit(diffs[i].hunk[1]), SideAsGit(diffs[i].hunk[2])>>

OddPayload(d) == d.text \in OddPatches
SoundDiff(d) == d.change_type \in {"A", "M", "D", "R"} /\ Len(d.hunk) = 2
Recorded(i) == diffs[i].path \in DOMAIN found[diffs[i].change_type]

\* C14: a diff whose payload is binary, empty, or has a malformed or absent
\* hunk header produces no ChangeRecord and raises no error; the remaining
\* diffs still get their ChangeRecords.
C14_OddPayloadIsDropped ==
    /\ pc # "idle"
    /\ \A i \in DOMAIN diffs : OddPayload(diffs[i]) \/ SoundDiff(diffs[i])
    => /\ pc = "returned"
       /\ \A i \in DOMAIN diffs :
             /\ SoundDiff(diffs[i]) /\ IsPy(diffs[i].path) => Recorded(i)
             /\ OddPayload(diffs[i]) /\ LastOfKey(i) /\ diffs[i].change_type # "X"
                   => ~Recorded(i)

\* ------------------------------------------ claims on the change set of run()
\* run() has got past find_changed_files, or has failed in it
Diffed == pc # "idle" /\ diffs # <<>>
MovedPy(d) == d.change_type \in {"R", "T"} /\ IsPy(d.path)
AllSound == \A i \in DOMAIN diffs : diffs[i].change_type \in {"A", "M", "R", "T"}
Readable == \A p \in ProjectFiles : faulty[p] = "ok"

\* the path is in the change set with the range of an added file and all
\* its symbols are seeded as locally changed
SeededLikeAdded(path) ==
    /\ pc = "items"
    /\ path \in DOMAIN changed_files
    /\ changed_files[path].changed_lines = <<<<1, LineCount(path)>>>>
    /\ path \in DOMAIN seed
    /\ seed[path] = SymbolsOf(path)

\* C15: a Retyped file whose new path is a python file, and a Renamed
\* file, are attributed like an added file: the full-file range enters
\* the change set of run() and the symbols are seeded as locally changed.
C15_MovedFileIsSeeded ==
    Diffed /\ AllSound /\ Readable =>
        \A i \in DOMAIN diffs :
            MovedPy(diffs[i]) /\ ~should_ignore_source_file(diffs[i].path)
                => SeededLikeAdded(diffs[i].path)

Tracked(path) == path \in ProjectFiles /\ ~should_ignore_source_file(path)

\* C16: with no commit before the head, every tracked python file that is
\* not ignored is in the change set as an added file, and a test item of
\* such a file gets the verdict RUN as a new test without a walk.
C16_FirstCommitRunsAll ==
    first_commit /\ Readable /\ pc # "idle" =>
        /\ pc = "items"
        /\ DOMAIN changed_files = {p \in ProjectFiles : Tracked(p)}
        /\ \A p \in DOMAIN changed_files :
              changed_files[p] = ChangedFile("A", <<<<1, LineCount(p)>>>>)
        /\ item # NoItem /\ Tracked(item.path) =>
              /\ item.action = "RUN"
              /\ item.reason = "New test"
              /\ ~item.marked
              /\ parsed = <<>>
              /\ unchanged_map = EmptyMap

\* the walk from the test was made and answered that nothing it reaches
\* has changed
TouchesNothingChanged ==
    /\ ~NewlyAdded(item.path)
    /\ ~item.lastfailed
    /\ ~item.skip
    /\ item.fix # "true"
    /\ item.dep = "false"

\* C17: run() adds a skip marker to a test item if and only if the verdict
\* of the item is SKIP for touching no changed code; an item with the
\* verdict RUN and an item that carried a skip marker get no marker.
C17_MarkedIffUnchanged ==
    Judged =>
        /\ item.marked <=> (item.action = "SKIP" /\ item.reason = "Unchanged")
        /\ item.marked <=> TouchesNothingChanged
        /\ item.action = "RUN" => ~item.marked
        /\ item.skip => ~item.marked

C17_Witness ==
    /\ Judged
    /\ item.marked
    /\ item.args # <<>>
    /\ \E e \in uses : e[1] = item.name /\ fileOf[e[2]] # item.path

\* --------------------------------- the module name of a relative import
\* A path is the list of its components: os.path.dirname drops the last,
\* os.path.basename is the last.  A dotted module name is the list of its
\* parts.
dirname(path) == SubSeq(path, 1, Len(path) - 1)
basename(path) == IF path = <<>> THEN "" ELSE path[Len(path)]

\* lines 495-500: while import_level > 0
RECURSIVE RelativeLoop(_, _, _)
RelativeLoop(name, src_path, import_level) ==
    IF import_level > 0
    THEN RelativeLoop(<<basename(dirname(src_path))>> \o name, dirname(src_path),
                      import_level - 1)
    ELSE name

\* lines 491-502, for an import that names a module
RelativeModuleName(path, module, import_level) ==
    IF import_level > 0
    THEN RelativeLoop(<<module>>, path, import_level)
    ELSE <<module>>

\* import_module(module_name), line 507: the place of the module under an
\* entry root of sys.path
ModuleUnder(root, name) == root \o name

\* the importing files: f.py in a package nested at most MaxNesting deep
\* below the root of the repository
DirNames == {"pkg", "sub", "lib"}
PackagePaths == UNION {[1..k -> DirNames] : k \in 1..MaxNesting}
ModuleNames == {"m", "n"}

InitImport ==
    /\ NoWalk
    /\ NoModule
    /\ NoRun
    /\ \E dirs \in PackagePaths : \E m \in ModuleNames : \E l \in 0..MaxLevel :
          /\ l <= Len(dirs)
          /\ importing = [path |-> <<"repo">> \o dirs \o <<"f.py">>,
                          module |-> m, level |-> l]
    /\ module_name = <<>>

ResolveImport ==
    /\ module_name = <<>>
    /\ module_name' = RelativeModuleName(importing.path, importing.module, importing.level)
    /\ UNCHANGED <<projVars, walkVars, memberVars, runVars, diffVars, importing>>

NextImport == ResolveImport

SpecImport == InitImport /\ [][NextImport]_vars

\* the package level levels up from the file: its directory for 1, the
\* parent of its directory for 2
RECURSIVE PackageUp(_, _)
PackageUp(path, level) ==
    IF level = 0 THEN path ELSE PackageUp(dirname(path), level - 1)

\* the directories above the file, each of which may be on sys.path
RECURSIVE Above(_)
Above(path) ==
    IF path = <<>> THEN {<<>>} ELSE {dirname(path)} \cup Above(dirname(path))

\* C21: for a relative import of the module M with level N > 0 in the file
\* F, the module name built denotes the module M of the package N levels up
\* from F: the directory of F for N = 1, its parent for N = 2, and so on.
C21_RelativeNameDenotesLevelUp ==
    module_name # <<>> /\ importing.level > 0 =>
        \E root \in Above(importing.path) :
            ModuleUnder(root, module_name)
                = PackageUp(importing.path, importing.level) \o <<importing.module>>

====
